---- MODULE Spec2Model ----
(***************************************************************************)
(* Model of the Markdown/Mermaid conversion server:                        *)
(*   src/src/index.ts      the CallTool request handler (tool front-end)   *)
(*   src/src/converter.ts  convertMarkdownToPDF, convertMermaidToPNG,      *)
(*                         convertMermaidToPDF                             *)
(*   src/src/types.ts      the option and result records                   *)
(*                                                                         *)
(* Strings whose characters matter (paths, code-block text) are sequences  *)
(* of one-character strings; fixed fragments of generated HTML are single  *)
(* chunks of such a sequence.                                              *)
(***************************************************************************)
EXTENDS Integers, Sequences, FiniteSets, TLC

\* ------------------------------------------------------------------ bounds
\* Longest input path (in characters) drawn in SpecInputs.
MaxPathLen == 6
\* Longest fenced-code-block text (in characters) drawn in SpecInputs.
MaxTextLen == 2

\* The absent value of an optional string (JavaScript undefined): a sequence no
\* string of the model equals.
Undefined == <<"undefined">>

\* JavaScript truthiness of an optional string: undefined and "" are falsy.
Falsy(v) == v = Undefined \/ v = <<>>

\* ------------------------------------------------------- sequences, helpers
RECURSIVE SeqsUpTo(_, _)
SeqsUpTo(S, n) ==
  IF n = 0 THEN {<<>>}
  ELSE LET shorter == SeqsUpTo(S, n - 1)
       IN shorter \cup {Append(s, c) : s \in {t \in shorter : Len(t) = n - 1}, c \in S}

Range(s) == {s[k] : k \in DOMAIN s}

\* ------------------------------------------------- node:path (POSIX flavour)
\* The characters paths are drawn from: the separator, the dot and a letter.
PathChars == {"/", ".", "d"}

\* Index of the last character that is not a trailing separator (0: none).
RECURSIVE LastNonSlash(_, _)
LastNonSlash(p, k) ==
  IF k = 0 THEN 0 ELSE IF p[k] # "/" THEN k ELSE LastNonSlash(p, k - 1)

\* Index of the last separator at or before k (0: none).
RECURSIVE LastSlashUpTo(_, _)
LastSlashUpTo(p, k) ==
  IF k = 0 THEN 0 ELSE IF p[k] = "/" THEN k ELSE LastSlashUpTo(p, k - 1)

\* The last component of a path, trailing separators ignored.
LastComponent(p) ==
  LET e == LastNonSlash(p, Len(p))
      s == LastSlashUpTo(p, e)
  IN IF e = 0 THEN <<>> ELSE SubSeq(p, s + 1, e)

\* Index of the last dot of a component (0: none).
RECURSIVE LastDot(_, _)
LastDot(b, k) ==
  IF k = 0 THEN 0 ELSE IF b[k] = "." THEN k ELSE LastDot(b, k - 1)

\* path.extname: from the last dot of the last component; empty when there is
\* no dot, when the only dot is the component's first character, and for "..".
extname(p) ==
  LET b == LastComponent(p)
      d == LastDot(b, Len(b))
  IN IF d = 0 \/ d = 1 \/ b = <<".", ".">> THEN <<>>
     ELSE SubSeq(b, d, Len(b))

IsSuffix(s, b) ==
  Len(s) <= Len(b) /\ SubSeq(b, Len(b) - Len(s) + 1, Len(b)) = s

\* path.basename(path, suffix): the last component, with the suffix removed
\* when the component ends with it and is longer than it.
basename(p, suffix) ==
  LET b == LastComponent(p)
  IN IF suffix # <<>> /\ suffix = p THEN <<>>
     ELSE IF suffix # <<>> /\ Len(suffix) < Len(b) /\ IsSuffix(suffix, b)
          THEN SubSeq(b, 1, Len(b) - Len(suffix))
          ELSE b

\* path.dirname: everything before the separator that precedes the last
\* component (a scan from the end down to the second character).
dirname(p) ==
  LET e == LastNonSlash(p, Len(p))
      s == IF e <= 1 THEN 0 ELSE LastSlashUpTo(p, e)
      hasRoot == Len(p) > 0 /\ p[1] = "/"
  IN IF Len(p) = 0 THEN <<".">>
     ELSE IF s <= 1 THEN (IF hasRoot THEN <<"/">> ELSE <<".">>)
     ELSE IF hasRoot /\ s = 2 THEN <<"/", "/">>
     ELSE SubSeq(p, 1, s - 1)

\* The components of a path, empty ones (between repeated separators) included.
RECURSIVE Split(_)
Split(p) ==
  LET s == LastSlashUpTo(p, Len(p))
  IN IF s = 0 THEN <<p>>
     ELSE Append(Split(SubSeq(p, 1, s - 1)), SubSeq(p, s + 1, Len(p)))

\* normalizeString: drop empty and "." components, let ".." take back the
\* component before it (kept when nothing can be taken back and the path is
\* relative).
RECURSIVE NormalizeSegs(_, _, _)
NormalizeSegs(segs, acc, allowAboveRoot) ==
  IF segs = <<>> THEN acc
  ELSE LET seg == Head(segs)
           rest == Tail(segs)
       IN IF seg = <<>> \/ seg = <<".">>
          THEN NormalizeSegs(rest, acc, allowAboveRoot)
          ELSE IF seg = <<".", ".">>
          THEN IF acc # <<>> /\ acc[Len(acc)] # <<".", ".">>
               THEN NormalizeSegs(rest, SubSeq(acc, 1, Len(acc) - 1), allowAboveRoot)
               ELSE IF allowAboveRoot
               THEN NormalizeSegs(rest, Append(acc, seg), allowAboveRoot)
               ELSE NormalizeSegs(rest, acc, allowAboveRoot)
          ELSE NormalizeSegs(rest, Append(acc, seg), allowAboveRoot)

RECURSIVE JoinSegs(_)
JoinSegs(segs) ==
  IF segs = <<>> THEN <<>>
  ELSE IF Len(segs) = 1 THEN segs[1]
  ELSE segs[1] \o <<"/">> \o JoinSegs(Tail(segs))

\* path.normalize
normalize(p) ==
  LET isAbsolute == Len(p) > 0 /\ p[1] = "/"
      trailing == Len(p) > 0 /\ p[Len(p)] = "/"
      body == JoinSegs(NormalizeSegs(Split(p), <<>>, ~isAbsolute))
  IN IF Len(p) = 0 THEN <<".">>
     ELSE IF body = <<>>
          THEN (IF isAbsolute THEN <<"/">>
                ELSE IF trailing THEN <<".", "/">> ELSE <<".">>)
          ELSE (IF isAbsolute THEN <<"/">> ELSE <<>>)
               \o body \o (IF trailing THEN <<"/">> ELSE <<>>)

\* path.join of two arguments: the non-empty ones joined by a separator,
\* then normalized.
join(a, b) ==
  LET joined == IF a = <<>> THEN b
                ELSE IF b = <<>> THEN a
                ELSE a \o <<"/">> \o b
  IN IF joined = <<>> THEN <<".">> ELSE normalize(joined)

PdfExt == <<".", "p", "d", "f">>

\* A variant that forgets the input's directory.
DropDirOutputPath(inputPath, outputPath) ==
  IF ~Falsy(outputPath) THEN outputPath
  ELSE basename(inputPath, extname(inputPath)) \o PdfExt

\* converter.ts:111-115: the explicit output path when it is truthy, else the
\* input's directory joined with its base name, extension removed, plus ".pdf".
ResolveOutputPath(inputPath, outputPath) ==
  IF ~Falsy(outputPath) THEN outputPath
  ELSE join(dirname(inputPath), basename(inputPath, extname(inputPath)) \o PdfExt)

\* fs.readFile can only yield a file's content for a path that names a file:
\* not the empty path, nor one ending in a separator, "." or "..".
NamesAFile(p) ==
  /\ p # <<>>
  /\ p[Len(p)] # "/"
  /\ LastComponent(p) \notin {<<".">>, <<".", ".">>}

\* ------------------------------------------------ the fenced-code-block rule
\* The characters code-block text is drawn from.
TextChars == {"&", "<", ">", "a"}

\* text.replace(/c/g, r)
RECURSIVE ReplaceAll(_, _, _)
ReplaceAll(s, c, r) ==
  IF s = <<>> THEN <<>>
  ELSE (IF Head(s) = c THEN r ELSE <<Head(s)>>) \o ReplaceAll(Tail(s), c, r)

Amp == <<"&", "a", "m", "p", ";">>
Lt == <<"&", "l", "t", ";">>
Gt == <<"&", "g", "t", ";">>

\* converter.ts:101: the three replacements, in the code's order.
EscapeHTML(text) == ReplaceAll(ReplaceAll(ReplaceAll(text, "&", Amp), "<", Lt), ">", Gt)

DivOpen == "<div class=\"mermaid\">\n"
DivClose == "\n</div>\n"
PreOpen == "<pre><code"
PreClose == "</code></pre>\n"
ClassOpen == " class=\"language-"

\* A variant that emits the body of a code block as it is.
codeNoEscape(text, lang, escaped) ==
  IF lang = "mermaid"
  THEN <<DivOpen>> \o text \o <<DivClose>>
  ELSE <<PreOpen>> \o (IF lang # "" THEN <<ClassOpen, lang, "\"">> ELSE <<>>)
       \o <<">">> \o text \o <<PreClose>>

\* renderer.code (converter.ts:94-103). lang is "" for a block with no tag.
code(text, lang, escaped) ==
  IF lang = "mermaid"
  THEN <<DivOpen>> \o text \o <<DivClose>>
  ELSE LET langClass == IF lang # "" THEN <<ClassOpen, lang, "\"">> ELSE <<>>
           body == IF escaped THEN text ELSE EscapeHTML(text)
       IN <<PreOpen>> \o langClass \o <<">">> \o body \o <<PreClose>>

\* marked(markdownContent), converter.ts:108, for a document given as its
\* fenced code blocks: the parser hands each block's token to renderer.code.
\* The lexer's code tokens carry no `escaped` flag, so it is falsy.
marked(markdownContent) ==
  [k \in DOMAIN markdownContent |->
     code(markdownContent[k].text, markdownContent[k].lang, FALSE)]

\* createHTMLDocument (converter.ts:177-201): the transformed body inside the
\* full document; the diagram containers of the page are those of the body.
createHTMLDocument(bodyHTML) == [kind |-> "full", body |-> bodyHTML]

\* createMermaidOnlyHTML (converter.ts:206-242): one diagram container
\* holding the raw diagram source.
createMermaidOnlyHTML(mermaidCode) ==
  [kind |-> "diagram", body |-> << <<DivOpen>> \o mermaidCode \o <<DivClose>> >>]

EmptyHTML == [kind |-> "none", body |-> <<>>]

\* The elements matching '.mermaid' once the document is loaded in the page.
Containers(fullHTML) ==
  {k \in DOMAIN fullHTML.body : Head(fullHTML.body[k]) = DivOpen}

\* ------------------------------------------------------------- the requests
Invocations == {"i1", "i2"}

MdTool == "convert_md_to_pdf"
PngTool == "convert_mermaid_to_png"
PdfTool == "convert_mermaid_to_pdf"
OtherTool == "convert_md_to_docx"

\* request.params.arguments: absent altogether (present = FALSE), or a record
\* whose fields may each be absent.
NoArguments ==
  [present |-> FALSE, input_path |-> Undefined, output_path |-> Undefined,
   mermaid_code |-> Undefined]

MdArguments(input, output) ==
  [present |-> TRUE, input_path |-> input, output_path |-> output,
   mermaid_code |-> Undefined]

DiagramArguments(mermaidCode, output) ==
  [present |-> TRUE, input_path |-> Undefined, output_path |-> output,
   mermaid_code |-> mermaidCode]

Request(name, arguments) == [name |-> name, arguments |-> arguments]

\* No request delivered.
NoRequest == Request("", NoArguments)

SamplePath == <<"/", "d", ".", "d">>
SampleOut == <<"/", "o">>
SampleDiagram == <<"g">>

\* The requests of Spec: every tool, every way of leaving out an argument.
SmallRequests ==
  {Request(n, NoArguments) : n \in {MdTool, PngTool, PdfTool, OtherTool}}
  \cup {Request(MdTool, MdArguments(i, o)) :
          i \in {Undefined, <<>>, SamplePath}, o \in {Undefined, SampleOut}}
  \cup {Request(n, DiagramArguments(c, o)) :
          n \in {PngTool, PdfTool},
          c \in {Undefined, SampleDiagram}, o \in {Undefined, <<>>, SampleOut}}
  \cup {Request(OtherTool, MdArguments(SamplePath, Undefined))}

\* The Markdown files of Spec, as their fenced code blocks.
Block(lang, text) == [lang |-> lang, text |-> text]
File(content) == [readable |-> TRUE, content |-> content]
Unreadable == [readable |-> FALSE, content |-> <<>>]

SmallFiles ==
  {Unreadable, File(<<>>), File(<<Block("python", <<"a", "<">>)>>),
   File(<<Block("mermaid", <<"a">>)>>),
   File(<<Block("mermaid", <<"a">>), Block("mermaid", <<">">>)>>)}

\* The requests and files of SpecInputs: every path and every code block
\* within the bounds.
PathRequests ==
  {Request(MdTool, MdArguments(i, o)) :
     i \in SeqsUpTo(PathChars, MaxPathLen), o \in {Undefined, <<>>, SampleOut}}

BlockFiles ==
  {File(<<Block(l, t)>>) :
     l \in {"mermaid", "python", "Mermaid", ""}, t \in SeqsUpTo(TextChars, MaxTextLen)}

\* ---------------------------------------------------------------- the state
VARIABLES
  req,            \* req[i]: the tools/call request of invocation i
  file,           \* file[i]: what the file system holds at i's input path
  inv,            \* inv[i]: the handler's and the operation's state for i
  markedDefaults  \* the renderer overrides installed on the shared `marked`
                  \* instance, as the invocations that installed them, in order

vars == <<req, file, inv, markedDefaults>>

\* ConversionResult / MermaidConversionResult (types.ts:16-23, 38-45).
SuccessResult(path) == [success |-> TRUE, outputPath |-> path, error |-> Undefined]

\* A variant that also reports the path it was writing to.
FailureResultWithPath(message, path) ==
  [success |-> FALSE, outputPath |-> path, error |-> message]

\* converter.ts:167-170 (and 297-300, 358-361): the catch clause's result.
FailureResult(message, path) ==
  [success |-> FALSE, outputPath |-> Undefined, error |-> message]

NoResult == [success |-> FALSE, outputPath |-> Undefined, error |-> Undefined]

\* The tool response (index.ts:131-139, 151-168, 266-274); isError is left
\* out of a success response, which reads as false.
Response(isError, text) == [isError |-> isError, text |-> text]
NoResponse == Response(FALSE, <<>>)

\* The message of the error an awaited step rejects with.
ErrorOf(step) == <<step \o " failed">>
RenderError == <<"Failed to render Mermaid diagram">>

InitialInv(r) ==
  [pc |-> IF r = NoRequest THEN "idle" ELSE "dispatch",
   op |-> "",
   inputPath |-> Undefined,
   htmlContent |-> <<>>,
   fullHTML |-> EmptyHTML,
   outputPath |-> Undefined,
   browser |-> "none",
   svg |-> {},
   pendingErr |-> Undefined,
   retVal |-> NoResult,
   result |-> NoResult,
   response |-> NoResponse,
   raised |-> {},
   opCalls |-> <<>>,
   launches |-> 0,
   pages |-> 0,
   captures |-> 0,
   closeCalls |-> 0,
   results |-> 0,
   written |-> FALSE,
   capturedReady |-> FALSE]

Init ==
  /\ req \in [Invocations -> SmallRequests]
  /\ file \in [Invocations -> SmallFiles]
  /\ \A i \in Invocations : req[i].name # MdTool => file[i] = Unreadable
  /\ inv = [i \in Invocations |-> InitialInv(req[i])]
  /\ markedDefaults = <<>>

InitInputs ==
  /\ \E r \in SmallRequests \cup PathRequests :
       \E f \in (IF r.name # MdTool THEN {Unreadable}
                  ELSE IF r \in SmallRequests THEN SmallFiles \cup BlockFiles
                  ELSE {File(<<>>)}) :
         /\ req = [i \in Invocations |-> IF i = "i1" THEN r ELSE NoRequest]
         /\ file = [i \in Invocations |-> IF i = "i1" THEN f ELSE Unreadable]
  /\ inv = [i \in Invocations |-> InitialInv(req[i])]
  /\ markedDefaults = <<>>

\* -------------------------------------------------- exceptions and try blocks
\* A variant in which the finally block lies outside the outer try.
TryRegionCloseOutside(step) ==
  IF step \in {"readFile", "marked", "launch"} THEN "catch"
  ELSE IF step = "close" THEN "escape"
  ELSE "finally"

\* A variant with no finally block: the inner steps throw straight to catch.
TryRegionNoFinally(step) == "catch"

\* Where an exception raised at an awaited step goes (converter.ts:87, 126,
\* 163-166; 250, 260, 293-296; 310, 320, 354-357): the steps before the inner
\* try, and the close inside the finally block, are caught by the outer
\* catch; the steps of the inner try run the finally block first.
TryRegion(step) ==
  IF step \in {"readFile", "marked", "launch", "close"} THEN "catch"
  ELSE "finally"

\* finally { await browser.close() }: close is called, the operation waits.
EnterFinally(r) == [r EXCEPT !.pc = "close", !.closeCalls = @ + 1]

\* catch (error) { return {success: false, error: message} }
Catch(r, message) ==
  [r EXCEPT !.pc = "returned", !.result = FailureResult(message, r.outputPath),
            !.results = @ + 1]

\* A variant that starts over with a new browser when opening the page fails.
PropagateRetry(r, step, message) ==
  IF step = "newPage" THEN [r EXCEPT !.pc = "launch"]
  ELSE CASE TryRegion(step) = "finally" -> EnterFinally([r EXCEPT !.pendingErr = message])
         [] TryRegion(step) = "catch" -> Catch(r, message)
         [] OTHER -> [r EXCEPT !.pc = "escaped"]

\* An exception with `message` propagating from the place of `step`.
Propagate(r, step, message) ==
  CASE TryRegion(step) = "finally" -> EnterFinally([r EXCEPT !.pendingErr = message])
    [] TryRegion(step) = "catch" -> Catch(r, message)
    [] OTHER -> [r EXCEPT !.pc = "escaped"]

\* The awaited `step` rejects (or the code at it throws) with `message`.
Raise(r, step, message) ==
  Propagate([r EXCEPT !.raised = @ \cup {step}], step, message)

Set(i, r) == inv' = [inv EXCEPT ![i] = r]

\* ------------------------------------------------------ the readiness wait
\* The predicate written at converter.ts:135-141: every '.mermaid' element
\* has an svg descendant (true when there is none).
ReadyAll(r) == \A k \in Containers(r.fullHTML) : k \in r.svg

\* The predicate written at converter.ts:269-272 and 329-332: the first
\* '.mermaid' element exists and has an svg descendant.
ReadySingle(r) ==
  LET cs == Containers(r.fullHTML)
  IN cs # {} /\ (CHOOSE k \in cs : \A j \in cs : k <= j) \in r.svg

ReadinessPredicate(r) ==
  IF r.op = "convertMarkdownToPDF" THEN ReadyAll(r) ELSE ReadySingle(r)

\* The first argument of page.waitForFunction at converter.ts:133-142,
\* 267-273 and 327-333 is a template-literal string whose text is an arrow
\* function, not a function.
PageFunctionIsString == TRUE

\* page.waitForFunction resolves once its page function yields a truthy value.
\* Puppeteer calls a function argument on every poll; a string argument it
\* evaluates as an expression, `return (<string>)`. The value of an
\* arrow-function expression is the function object, which is truthy, and the
\* arrow function's body, the predicate, is never run.
WaitResolves(r) ==
  IF PageFunctionIsString THEN TRUE ELSE ReadinessPredicate(r)

\* The steps during which the document is in the page and mermaid may render.
LiveSteps == {"setContent", "waitForFunction", "query", "capture"}

\* --------------------------------------------------------------- the actions
\* A variant of the convert_md_to_pdf branch whose operation launches the
\* browser before it reads the input file.
CallMdLaunchFirst(i) ==
  LET r == inv[i]
      a == req[i].arguments
  IN /\ r.pc = "dispatch"
     /\ req[i].name = MdTool
     /\ Set(i, IF ~a.present THEN [r EXCEPT !.pc = "threw"]
               ELSE IF Falsy(a.input_path)
               THEN [r EXCEPT !.pc = "responded",
                              !.response = Response(TRUE, <<"Error: input_path is required">>)]
               ELSE [r EXCEPT !.pc = "readFile",
                              !.op = "convertMarkdownToPDF",
                              !.opCalls = Append(@, "convertMarkdownToPDF"),
                              !.inputPath = a.input_path,
                              !.browser = "open",
                              !.launches = @ + 1])
     /\ UNCHANGED <<req, file, markedDefaults>>

\* index.ts:123-148 and converter.ts:84-89: the handler's convert_md_to_pdf
\* branch up to the operation's first await. Reading a field of an absent
\* arguments record throws a TypeError, outside any try block.
CallMd(i) ==
  LET r == inv[i]
      a == req[i].arguments
  IN /\ r.pc = "dispatch"
     /\ req[i].name = MdTool
     /\ Set(i, IF ~a.present THEN [r EXCEPT !.pc = "threw"]
               ELSE IF Falsy(a.input_path)
               THEN [r EXCEPT !.pc = "responded",
                              !.response = Response(TRUE, <<"Error: input_path is required">>)]
               ELSE [r EXCEPT !.pc = "readFile",
                              !.op = "convertMarkdownToPDF",
                              !.opCalls = Append(@, "convertMarkdownToPDF"),
                              !.inputPath = a.input_path])
     /\ UNCHANGED <<req, file, markedDefaults>>

\* index.ts:172-195 / 219-242 and converter.ts:247-258 / 307-318: a diagram
\* tool's branch up to the operation's first await, puppeteer.launch.
CallDiagram(i, tool, operation) ==
  LET r == inv[i]
      a == req[i].arguments
  IN /\ r.pc = "dispatch"
     /\ req[i].name = tool
     /\ Set(i, IF ~a.present THEN [r EXCEPT !.pc = "threw"]
               ELSE IF Falsy(a.mermaid_code) \/ Falsy(a.output_path)
               THEN [r EXCEPT !.pc = "responded",
                              !.response = Response(TRUE,
                                <<"Error: mermaid_code and output_path are required">>)]
               ELSE [r EXCEPT !.pc = "launch",
                              !.op = operation,
                              !.opCalls = Append(@, operation),
                              !.outputPath = a.output_path,
                              !.fullHTML = createMermaidOnlyHTML(a.mermaid_code)])
     /\ UNCHANGED <<req, file, markedDefaults>>

CallPng(i) == CallDiagram(i, PngTool, "convertMermaidToPNG")

CallPdf(i) == CallDiagram(i, PdfTool, "convertMermaidToPDF")

\* A variant whose fall-through response lacks the error flag.
CallUnknownNoFlag(i) ==
  LET r == inv[i]
  IN /\ r.pc = "dispatch"
     /\ req[i].name \notin {MdTool, PngTool, PdfTool}
     /\ Set(i, [r EXCEPT !.pc = "responded",
                         !.response = Response(FALSE, <<"Unknown tool: ", req[i].name>>)])
     /\ UNCHANGED <<req, file, markedDefaults>>

\* index.ts:266-274: no branch matched the tool name.
CallUnknown(i) ==
  LET r == inv[i]
  IN /\ r.pc = "dispatch"
     /\ req[i].name \notin {MdTool, PngTool, PdfTool}
     /\ Set(i, [r EXCEPT !.pc = "responded",
                         !.response = Response(TRUE, <<"Unknown tool: ", req[i].name>>)])
     /\ UNCHANGED <<req, file, markedDefaults>>

\* converter.ts:89-108: readFile settles; on success the renderer override is
\* installed on the shared marked instance and the content is parsed.
ReadFileSettles(i) ==
  LET r == inv[i]
  IN /\ r.pc = "readFile"
     /\ \/ /\ file[i].readable
           /\ NamesAFile(r.inputPath)
           /\ markedDefaults' = Append(markedDefaults, i)
           /\ \E parsed \in BOOLEAN :
                Set(i, IF parsed
                       THEN [r EXCEPT !.pc = "marked",
                                      !.htmlContent = marked(file[i].content)]
                       ELSE Raise(r, "marked", ErrorOf("marked")))
        \/ /\ Set(i, Raise(r, "readFile", ErrorOf("readFile")))
           /\ UNCHANGED markedDefaults
     /\ UNCHANGED <<req, file>>

\* converter.ts:108-124: the parse result arrives; the output path is
\* resolved, the document assembled and the browser launch started.
MarkedSettles(i) ==
  LET r == inv[i]
  IN /\ r.pc = "marked"
     /\ Set(i, [r EXCEPT !.pc = "launch",
                         !.outputPath = ResolveOutputPath(r.inputPath,
                                                          req[i].arguments.output_path),
                         !.fullHTML = createHTMLDocument(r.htmlContent)])
     /\ UNCHANGED <<req, file, markedDefaults>>

\* converter.ts:121-127 (255-261, 315-321): puppeteer.launch settles.
LaunchSettles(i) ==
  LET r == inv[i]
  IN /\ r.pc = "launch"
     /\ \E ok \in BOOLEAN :
          Set(i, IF ok
                 THEN [r EXCEPT !.pc = "newPage", !.browser = "open",
                                !.launches = @ + 1]
                 ELSE Raise(r, "launch", ErrorOf("launch")))
     /\ UNCHANGED <<req, file, markedDefaults>>

\* converter.ts:127-130 (261-264, 321-324): browser.newPage settles.
NewPageSettles(i) ==
  LET r == inv[i]
  IN /\ r.pc = "newPage"
     /\ \E ok \in BOOLEAN :
          Set(i, IF ok
                 THEN [r EXCEPT !.pc = "setContent", !.pages = @ + 1]
                 ELSE Raise(r, "newPage", ErrorOf("newPage")))
     /\ UNCHANGED <<req, file, markedDefaults>>

\* converter.ts:130-133 (264-267, 324-327): page.setContent settles.
SetContentSettles(i) ==
  LET r == inv[i]
  IN /\ r.pc = "setContent"
     /\ \E ok \in BOOLEAN :
          Set(i, IF ok
                 THEN [r EXCEPT !.pc = "waitForFunction"]
                 ELSE Raise(r, "setContent", ErrorOf("setContent")))
     /\ UNCHANGED <<req, file, markedDefaults>>

\* The page's mermaid script renders one diagram container (its svg appears).
MermaidRenders(i) ==
  LET r == inv[i]
  IN /\ r.pc \in LiveSteps
     /\ r.browser = "open"
     /\ \E k \in Containers(r.fullHTML) \ r.svg :
          Set(i, [r EXCEPT !.svg = @ \cup {k}])
     /\ UNCHANGED <<req, file, markedDefaults>>

\* converter.ts:133-147 (267-278, 327-338): page.waitForFunction settles; it
\* rejects when the page fails or its deadline passes.
WaitForFunctionSettles(i) ==
  LET r == inv[i]
  IN /\ r.pc = "waitForFunction"
     /\ \/ /\ WaitResolves(r)
           /\ Set(i, [r EXCEPT !.pc = IF r.op = "convertMermaidToPNG"
                                      THEN "query" ELSE "capture"])
        \/ Set(i, Raise(r, "waitForFunction", ErrorOf("waitForFunction")))
     /\ UNCHANGED <<req, file, markedDefaults>>

\* converter.ts:278-284: page.$('.mermaid svg') settles; without an element
\* the operation throws 'Failed to render Mermaid diagram'.
QuerySettles(i) ==
  LET r == inv[i]
  IN /\ r.pc = "query"
     /\ \/ Set(i, IF \E k \in Containers(r.fullHTML) : k \in r.svg
                   THEN [r EXCEPT !.pc = "capture"]
                   ELSE Raise(r, "render", RenderError))
        \/ Set(i, Raise(r, "query", ErrorOf("query")))
     /\ UNCHANGED <<req, file, markedDefaults>>

\* converter.ts:147-165 (284-295, 338-356): page.pdf or the element
\* screenshot settles; on success the return value is set and the finally
\* block starts closing the browser.
CaptureSettles(i) ==
  LET r == inv[i]
  IN /\ r.pc = "capture"
     /\ \E ok \in BOOLEAN :
          Set(i, IF ok
                 THEN EnterFinally([r EXCEPT !.captures = @ + 1,
                                             !.written = TRUE,
                                             !.capturedReady = ReadinessPredicate(r),
                                             !.retVal = SuccessResult(r.outputPath)])
                 ELSE Raise(r, "capture", ErrorOf("capture")))
     /\ UNCHANGED <<req, file, markedDefaults>>

\* A variant that ignores a failing close and returns the value already set.
CloseSettlesSwallow(i) ==
  LET r == inv[i]
  IN /\ r.pc = "close"
     /\ \E ok \in BOOLEAN :
          Set(i, LET q == [r EXCEPT !.browser = "closed",
                                    !.raised = IF ok THEN @ ELSE @ \cup {"close"}]
                 IN IF q.pendingErr # Undefined
                    THEN Propagate(q, "close", q.pendingErr)
                    ELSE [q EXCEPT !.pc = "returned", !.result = q.retVal,
                                   !.results = @ + 1])
     /\ UNCHANGED <<req, file, markedDefaults>>

\* converter.ts:163-171 (293-301, 354-362): browser.close settles; the
\* operation returns the value set in the try block, or the pending
\* exception reaches the catch clause, or the close's own exception does.
CloseSettles(i) ==
  LET r == inv[i]
  IN /\ r.pc = "close"
     /\ \E ok \in BOOLEAN :
          Set(i, IF ok
                 THEN LET q == [r EXCEPT !.browser = "closed"]
                      IN IF q.pendingErr # Undefined
                         THEN Propagate(q, "close", q.pendingErr)
                         ELSE [q EXCEPT !.pc = "returned", !.result = q.retVal,
                                        !.results = @ + 1]
                 ELSE Raise(r, "close", ErrorOf("close")))
     /\ UNCHANGED <<req, file, markedDefaults>>

\* The opening of a success response (index.ts:155, 202, 249).
SuccessText(op) ==
  CASE op = "convertMarkdownToPDF" -> "Successfully converted Markdown to PDF!\nOutput: "
    [] op = "convertMermaidToPNG" -> "Successfully converted Mermaid diagram to PNG!\nOutput: "
    [] OTHER -> "Successfully converted Mermaid diagram to PDF!\nOutput: "

\* A variant whose failure response lacks the error flag.
RespondNoFlag(i) ==
  LET r == inv[i]
  IN /\ r.pc = "returned"
     /\ Set(i, [r EXCEPT !.pc = "responded",
                         !.response =
                           IF r.result.success
                           THEN Response(FALSE, <<SuccessText(r.op)>> \o r.result.outputPath)
                           ELSE Response(FALSE, <<"Conversion failed: ">> \o r.result.error)])
     /\ UNCHANGED <<req, file, markedDefaults>>

\* index.ts:150-169 (197-216, 244-263): the response shaped from the result.
Respond(i) ==
  LET r == inv[i]
  IN /\ r.pc = "returned"
     /\ Set(i, [r EXCEPT !.pc = "responded",
                         !.response =
                           IF r.result.success
                           THEN Response(FALSE, <<SuccessText(r.op)>> \o r.result.outputPath)
                           ELSE Response(TRUE, <<"Conversion failed: ">> \o r.result.error)])
     /\ UNCHANGED <<req, file, markedDefaults>>

Next ==
  \E i \in Invocations :
    \/ CallMd(i)
    \/ CallPng(i)
    \/ CallPdf(i)
    \/ CallUnknown(i)
    \/ ReadFileSettles(i)
    \/ MarkedSettles(i)
    \/ LaunchSettles(i)
    \/ NewPageSettles(i)
    \/ SetContentSettles(i)
    \/ MermaidRenders(i)
    \/ WaitForFunctionSettles(i)
    \/ QuerySettles(i)
    \/ CaptureSettles(i)
    \/ CloseSettles(i)
    \/ Respond(i)

\* Two tool calls in flight, every interleaving of their steps.
Spec == Init /\ [][Next]_vars

\* One tool call, its input path and its file's code block drawn from every
\* value within the bounds.
SpecInputs == InitInputs /\ [][Next]_vars

\* ================================================================ the claims
\* The operation of invocation i has returned to the handler.
Returned(i) == inv[i].pc \in {"returned", "responded"} /\ inv[i].opCalls # <<>>

\* ---- C1
\* C1: whatever step of a conversion operation fails (read, transform, launch,
\* page open, content load, readiness wait, element query, capture, close),
\* the operation returns success = false with an error message, and no
\* exception leaves the operation.
C1_FailuresBecomeResults ==
  \A i \in Invocations :
    /\ inv[i].pc # "escaped"
    /\ (Returned(i) /\ inv[i].raised # {}) =>
         (~inv[i].result.success /\ ~Falsy(inv[i].result.error))

\* A capture failed and then the close in the finally block failed too.
C1_Witness ==
  \E i \in Invocations :
    /\ Returned(i)
    /\ inv[i].raised = {"capture", "close"}
    /\ ~inv[i].result.success

\* ---- C2
\* C2: an operation that launched a browser has called close on it by the time
\* it returns, whether the steps after the launch succeeded or raised.
C2_LaunchedBrowserIsClosed ==
  \A i \in Invocations :
    (Returned(i) /\ inv[i].launches > 0) => inv[i].closeCalls >= inv[i].launches

\* The content load raised after a successful launch, and close was called.
C2_Witness ==
  \E i \in Invocations :
    /\ Returned(i)
    /\ inv[i].launches = 1
    /\ "setContent" \in inv[i].raised
    /\ inv[i].closeCalls = 1

\* ---- C3
\* C3 (as claimed): an operation whose loaded document has a diagram container
\* under which no svg appeared by the time it returns (so none ever does: the
\* page is gone) returns success = false.
C3_NoSvgMeansFailure ==
  \A i \in Invocations :
    (Returned(i) /\ Containers(inv[i].fullHTML) \ inv[i].svg # {})
      => ~inv[i].result.success

\* ---- C4
\* A required argument of a known tool is missing from the request.
MissingRequired(r) ==
  /\ r.name \in {MdTool, PngTool, PdfTool}
  /\ \/ ~r.arguments.present
     \/ r.name = MdTool /\ r.arguments.input_path = Undefined
     \/ r.name # MdTool /\ r.arguments.mermaid_code = Undefined
     \/ r.name # MdTool /\ r.arguments.output_path = Undefined

\* C4 (as claimed): a call of a known tool with a required argument missing,
\* or with no arguments record at all, is answered with isError = true and a
\* descriptive text, and neither an operation is invoked nor a browser
\* launched.
C4_MissingArgumentIsAnswered ==
  \A i \in Invocations :
    (MissingRequired(req[i]) /\ inv[i].pc # "dispatch") =>
      /\ inv[i].pc = "responded"
      /\ inv[i].response.isError
      /\ inv[i].response.text # <<>>
      /\ inv[i].opCalls = <<>>
      /\ inv[i].launches = 0

\* ---- C5
\* C5: a call whose tool name is none of the three is answered with
\* isError = true and a text naming the tool; the handler raises nothing and
\* invokes no operation.
C5_UnknownToolIsAnswered ==
  \A i \in Invocations :
    (req[i] # NoRequest /\ req[i].name \notin {MdTool, PngTool, PdfTool}
       /\ inv[i].pc # "dispatch") =>
      /\ inv[i].pc = "responded"
      /\ inv[i].response.isError
      /\ inv[i].response.text = <<"Unknown tool: ", req[i].name>>
      /\ inv[i].opCalls = <<>>
      /\ inv[i].launches = 0

\* An unknown tool called with no arguments record has been answered.
C5_Witness ==
  \E i \in Invocations :
    /\ req[i].name = OtherTool
    /\ ~req[i].arguments.present
    /\ inv[i].pc = "responded"

\* ---- C6
\* C6: a returned result has outputPath populated exactly when success is
\* true and error populated exactly when success is false.
C6_ExactlyOneOfPathAndError ==
  \A i \in Invocations :
    Returned(i) =>
      LET res == inv[i].result
      IN /\ res.success <=> ~Falsy(res.outputPath)
         /\ ~res.success <=> ~Falsy(res.error)
         /\ res.success => res.error = Undefined
         /\ ~res.success => res.outputPath = Undefined

\* One operation returned success; another failed after its output path was
\* known.
C6_Witness ==
  \E i, j \in Invocations :
    /\ Returned(i) /\ inv[i].result.success
    /\ Returned(j) /\ ~inv[j].result.success /\ inv[j].outputPath # Undefined

\* ---- C7
\* The input path with its extension (as extname finds it) replaced by ".pdf".
ReplaceExtension(p) == SubSeq(p, 1, Len(p) - Len(extname(p))) \o PdfExt

\* A convert_md_to_pdf call has succeeded: the path it wrote to is returned.
MdSucceeded(i) ==
  Returned(i) /\ inv[i].op = "convertMarkdownToPDF" /\ inv[i].result.success

RECURSIVE WellEscaped(_)
WellEscaped(b) ==
  IF b = <<>> THEN TRUE
  ELSE IF Head(b) \in {"<", ">"} THEN FALSE
  ELSE IF Head(b) = "&"
  THEN \E e \in {Amp, Lt, Gt} :
         /\ Len(b) >= Len(e)
         /\ SubSeq(b, 1, Len(e)) = e
         /\ WellEscaped(SubSeq(b, Len(e) + 1, Len(b)))
  ELSE WellEscaped(Tail(b))

\* The text an escaped body stands for.
RECURSIVE Unescape(_)
Unescape(b) ==
  IF b = <<>> THEN <<>>
  ELSE IF Len(b) >= 5 /\ SubSeq(b, 1, 5) = Amp THEN <<"&">> \o Unescape(SubSeq(b, 6, Len(b)))
  ELSE IF Len(b) >= 4 /\ SubSeq(b, 1, 4) = Lt THEN <<"<">> \o Unescape(SubSeq(b, 5, Len(b)))
  ELSE IF Len(b) >= 4 /\ SubSeq(b, 1, 4) = Gt THEN <<">">> \o Unescape(SubSeq(b, 5, Len(b)))
  ELSE <<Head(b)>> \o Unescape(Tail(b))

\* What the claim says of one block and the HTML emitted for it.
BlockRule(block, out) ==
  IF block.lang = "mermaid"
  THEN /\ Len(out) = Len(block.text) + 2
       /\ out[1] = DivOpen
       /\ SubSeq(out, 2, Len(out) - 1) = block.text
       /\ out[Len(out)] = DivClose
  ELSE block.lang # "" =>
       /\ Len(out) >= 6
       /\ SubSeq(out, 1, 5) = <<PreOpen, ClassOpen, block.lang, "\"", ">">>
       /\ out[Len(out)] = PreClose
       /\ WellEscaped(SubSeq(out, 6, Len(out) - 1))
       /\ Unescape(SubSeq(out, 6, Len(out) - 1)) = block.text
       /\ DivOpen \notin Range(out)

\* The Markdown of invocation i has been transformed.
Transformed(i) ==
  /\ inv[i].op = "convertMarkdownToPDF"
  /\ inv[i].pc \notin {"dispatch", "readFile"}
  /\ inv[i].raised \cap {"readFile", "marked"} = {}

\* C8: a block tagged 'mermaid' is emitted as a <div class="mermaid">
\* container holding the block text unescaped; a block with any other tag is
\* emitted as <pre><code class="language-<tag>"> with &, < and > of its body
\* escaped, never as a diagram container.
C8_FencedBlockRule ==
  \A i \in Invocations :
    Transformed(i) =>
      /\ Len(inv[i].htmlContent) = Len(file[i].content)
      /\ \A k \in DOMAIN file[i].content :
           BlockRule(file[i].content[k], inv[i].htmlContent[k])

\* A block tagged python whose text holds "&" and "<" has been transformed.
C8_Witness ==
  \E i \in Invocations :
    /\ Transformed(i)
    /\ file[i].content = <<Block("python", <<"&", "<">>)>>

\* ---- C9
\* C9 (as claimed): invocations share no mutable state: nothing an invocation
\* wrote to the Markdown parser's configuration is there once it has
\* returned, and the configuration never holds what two invocations wrote.
C9_NoSharedMutableState ==
  /\ \A i \in Invocations :
       inv[i].pc \in {"returned", "responded"} => i \notin Range(markedDefaults)
  /\ Cardinality(Range(markedDefaults)) <= 1

\* ---- C10
\* C10 (as claimed): when a capture (page.pdf or the element screenshot) is
\* taken, the readiness predicate of the operation holds of the live
\* document: no diagram container it covers lacks its svg.
C10_CaptureOnlyWhenReady ==
  \A i \in Invocations : inv[i].captures > 0 => inv[i].capturedReady

\* ---- C11
\* The place of a step in the order in which an operation takes its steps.
StepRank(pc) ==
  CASE pc \in {"idle", "dispatch"} -> 0
    [] pc = "readFile" -> 1
    [] pc = "marked" -> 2
    [] pc = "launch" -> 3
    [] pc = "newPage" -> 4
    [] pc = "setContent" -> 5
    [] pc = "waitForFunction" -> 6
    [] pc = "query" -> 7
    [] pc = "capture" -> 8
    [] pc = "close" -> 9
    [] pc = "returned" -> 10
    [] OTHER -> 11

\* At most one launch, page, capture and operation call per invocation, and
\* exactly one result once the operation has returned.
SingleAttemptCounts ==
  \A i \in Invocations :
    /\ Len(inv[i].opCalls) <= 1
    /\ inv[i].launches <= 1
    /\ inv[i].pages <= 1
    /\ inv[i].captures <= 1
    /\ inv[i].closeCalls <= 1
    /\ inv[i].results <= 1
    /\ Returned(i) => inv[i].results = 1

\* No step of an invocation leads back to an earlier step, and a step taken
\* after a failure leads on to the close or to the result.
NoStepRepeated ==
  \A i \in Invocations :
    /\ StepRank(inv'[i].pc) >= StepRank(inv[i].pc)
    /\ (inv'[i].raised # inv[i].raised) => inv'[i].pc \in {"close", "returned"}
    /\ (inv[i].raised # {} /\ inv'[i].pc # inv[i].pc) =>
         inv'[i].pc \in {"close", "returned", "responded"}

\* C11: an invocation makes a single attempt: at most one browser launch, one
\* page, one capture, exactly one result, and after a failed step no earlier
\* step is taken again.
C11_SingleAttempt == []SingleAttemptCounts /\ [][NoStepRepeated]_vars

\* The content load failed after one launch and one page; close was called
\* once and one result returned, with no capture.
C11_Witness ==
  \E i \in Invocations :
    /\ Returned(i)
    /\ "setContent" \in inv[i].raised
    /\ inv[i].launches = 1 /\ inv[i].pages = 1 /\ inv[i].captures = 0
    /\ inv[i].closeCalls = 1 /\ inv[i].results = 1

\* ---- C12
\* C12: in convertMarkdownToPDF the file is read and transformed before the
\* browser is acquired: a browser is launched only after the transform, and
\* when the read or the transform fails the operation returns
\* success = false with no browser launched and nothing written.
C12_ReadAndTransformBeforeLaunch ==
  \A i \in Invocations :
    inv[i].op = "convertMarkdownToPDF" =>
      /\ (inv[i].launches > 0 \/ inv[i].browser # "none") =>
           (Transformed(i) /\ inv[i].pc \notin {"marked", "launch"})
      /\ inv[i].raised \cap {"readFile", "marked"} # {} =>
           /\ Returned(i)
           /\ ~inv[i].result.success
           /\ inv[i].launches = 0
           /\ inv[i].browser = "none"
           /\ inv[i].captures = 0
           /\ ~inv[i].written

\* The transform of a file that was read failed and the operation returned.
C12_Witness ==
  \E i \in Invocations :
    /\ inv[i].op = "convertMarkdownToPDF"
    /\ "marked" \in inv[i].raised
    /\ Returned(i)
    /\ inv[i].launches = 0

\* ---- C13
\* C13: an operation returns success = true only if its capture completed and
\* the close after it completed without error; when the output was written
\* and the close raises, it returns success = false with the close's error.
C13_SuccessNeedsCaptureAndClose ==
  \A i \in Invocations :
    Returned(i) =>
      /\ inv[i].result.success =>
           /\ inv[i].captures = 1
           /\ inv[i].written
           /\ inv[i].closeCalls = 1
           /\ inv[i].raised = {}
      /\ "close" \in inv[i].raised =>
           /\ ~inv[i].result.success
           /\ inv[i].result.error = ErrorOf("close")

\* The output file was written, the close raised, and the operation returned
\* success = false.
C13_Witness ==
  \E i \in Invocations :
    /\ Returned(i)
    /\ inv[i].written
    /\ inv[i].raised = {"close"}
    /\ ~inv[i].result.success

\* ---- C14
\* The operation a tool name stands for.
OperationOf(name) ==
  CASE name = MdTool -> "convertMarkdownToPDF"
    [] name = PngTool -> "convertMermaidToPNG"
    [] OTHER -> "convertMermaidToPDF"

\* The request names a known tool and carries every required argument
\* (an empty string is a carried argument).
RequiredPresent(r) ==
  /\ r.name \in {MdTool, PngTool, PdfTool}
  /\ r.arguments.present
  /\ r.name = MdTool => r.arguments.input_path # Undefined
  /\ r.name # MdTool =>
       (r.arguments.mermaid_code # Undefined /\ r.arguments.output_path # Undefined)

\* ... and every required argument is a non-empty string.
RequiredNonEmpty(r) ==
  /\ RequiredPresent(r)
  /\ r.name = MdTool => r.arguments.input_path # <<>>
  /\ r.name # MdTool =>
       (r.arguments.mermaid_code # <<>> /\ r.arguments.output_path # <<>>)

\* The handler has called the matching operation exactly once and, once it
\* has answered, shaped the response from the operation's result.
DispatchedAndShaped(i) ==
  /\ inv[i].pc \notin {"threw", "escaped"}
  /\ inv[i].opCalls = <<OperationOf(req[i].name)>>
  /\ inv[i].pc = "responded" =>
       LET res == inv[i].result
           text == inv[i].response.text
       IN /\ inv[i].response.isError <=> ~res.success
          /\ res.success =>
               /\ Len(text) = 1 + Len(res.outputPath)
               /\ SubSeq(text, 2, Len(text)) = res.outputPath
          /\ ~res.success => text = <<"Conversion failed: ">> \o res.error

\* C14 (as claimed): for a call of a known tool with all required arguments
\* present, the handler invokes the matching operation exactly once and
\* shapes the response from its result.
C14_DispatchAsClaimed ==
  \A i \in Invocations :
    (RequiredPresent(req[i]) /\ inv[i].pc # "dispatch") => DispatchedAndShaped(i)

\* C14 (amended): the same for a call whose required arguments are all
\* present and non-empty.
C14_DispatchNonEmpty ==
  \A i \in Invocations :
    (RequiredNonEmpty(req[i]) /\ inv[i].pc # "dispatch") => DispatchedAndShaped(i)

\* One call was answered from a successful result and another from a failed
\* one.
C14_Witness ==
  \E i, j \in Invocations :
    /\ RequiredNonEmpty(req[i]) /\ inv[i].pc = "responded" /\ inv[i].result.success
    /\ RequiredNonEmpty(req[j]) /\ inv[j].pc = "responded" /\ ~inv[j].result.success

====
